---- MODULE Spec2Model ----
(***************************************************************************)
(* Single-select list prompt (packages/cli/src/util/custom-input/select.ts)*)
(* modelled as a state machine: one action per classified key event of the *)
(* useKeypress handler, one for the search-expiry timer callback.          *)
(* Indices are 0-based as in the source; At(arr, i) reads arr[i].          *)
(***************************************************************************)
EXTENDS Integers, Sequences, FiniteSets, TLC

\* ------------------------------------------------------------------ bounds
MaxLen == 3        \* longest choices array explored
MaxBuf == 2        \* longest rl.line explored
MaxDigit == 4      \* number keys "1".."MaxDigit" explored (of "1".."9")

\* ------------------------------------------------------------ JS helpers
At(arr, i) == arr[i + 1]

IndexSet(arr) == 0 .. (Len(arr) - 1)

\* Array.prototype.findIndex over the per-element results of the predicate
FindIndex(flags) ==
  LET RECURSIVE scan(_)
      scan(i) == IF i >= Len(flags) THEN -1
                 ELSE IF flags[i + 1] THEN i
                 ELSE scan(i + 1)
  IN scan(0)

\* [...items].reverse()
Reverse(arr) == [i \in 1 .. Len(arr) |-> arr[Len(arr) + 1 - i]]

ToLowerChar(c) ==
  CASE c = "A" -> "a"
    [] c = "B" -> "b"
    [] OTHER -> c

\* String.prototype.toLowerCase
ToLowerCase(str) == [i \in 1 .. Len(str) |-> ToLowerChar(str[i])]

\* variant: an empty prefix matches nothing
StartsWithNonEmpty(str, prefix) ==
  /\ Len(prefix) > 0
  /\ Len(prefix) <= Len(str)
  /\ SubSeq(str, 1, Len(prefix)) = prefix

\* String.prototype.startsWith
StartsWith(str, prefix) ==
  /\ Len(prefix) <= Len(str)
  /\ SubSeq(str, 1, Len(prefix)) = prefix

\* decimal digit of String(n) for the numbers used as values
DigitChar(n) ==
  CASE n = 0 -> "0" [] n = 1 -> "1" [] n = 2 -> "2" [] n = 3 -> "3"
    [] n = 4 -> "4" [] n = 5 -> "5" [] n = 6 -> "6" [] n = 7 -> "7"
    [] n = 8 -> "8" [] OTHER -> "9"

\* values are strings or numbers; === distinguishes the two
VStr(str) == [num |-> FALSE, n |-> 0, s |-> str]
VNum(k) == [num |-> TRUE, n |-> k, s |-> <<>>]

\* String(value)
StringOf(v) ==
  IF v.num
    THEN (IF v.n >= 10 THEN <<DigitChar(v.n \div 10)>> ELSE <<>>)
           \o <<DigitChar(v.n % 10)>>
    ELSE v.s

\* JS truthiness of the `disabled` property (boolean | string | undefined)
TruthyDisabled(d) == d \notin {"undefined", "false", "str:"}

\* JS truthiness of the `name` property (string | undefined)
TruthyName(item) == item.hasName /\ Len(item.name) > 0

\* ----------------------------------------------------------------- items
SepItem ==
  [sep |-> TRUE, value |-> VStr(<<>>), hasName |-> FALSE, name |-> <<>>,
   disabled |-> "undefined"]

Choice(v, hasName, name, disabled) ==
  [sep |-> FALSE, value |-> v, hasName |-> hasName, name |-> name,
   disabled |-> disabled]

ItemSet ==
  { SepItem,
    \* { value: 'a', name: '', disabled: '' }: label 'a', selectable
    Choice(VStr(<<"a">>), TRUE, <<>>, "str:"),
    \* { value: 7, name: 'Ab', disabled: false }: label 'Ab', selectable
    Choice(VNum(7), TRUE, <<"A", "b">>, "false"),
    \* { value: 7, disabled: true }: disabled
    Choice(VNum(7), FALSE, <<>>, "true") }

Chars == {"A", "b"}

NoDefault == [present |-> FALSE, value |-> VStr(<<>>)]

DefaultSet ==
  { NoDefault, [present |-> TRUE, value |-> VNum(7)] }

ItemLists == UNION { [1 .. n -> ItemSet] : n \in 0 .. MaxLen }

Lines == UNION { [1 .. n -> Chars] : n \in 0 .. MaxBuf }

DigitKeys == 1 .. MaxDigit

\* ---------------------------------------------------- pure parts of select
isSelectable(item) == ~item.sep /\ ~TruthyDisabled(item.disabled)

SelectableFlags(items) == [i \in 1 .. Len(items) |-> isSelectable(items[i])]

\* variant: the backward scan forgets the - 1
BoundsLastOffByOne(items) ==
  Len(items) - FindIndex(SelectableFlags(Reverse(items)))

\* useMemo bounds: the values computed before the first < 0 test
BoundsLast(items) ==
  Len(items) - 1 - FindIndex(SelectableFlags(Reverse(items)))

Bounds(items) ==
  [first |-> FindIndex(SelectableFlags(items)), last |-> BoundsLast(items)]

\* variant: the emptiness test reads last instead of first
ThrowsOnLast(items) == Bounds(items).last < 0

\* the throw of the bounds memo
ThrowsValidationError(items) == Bounds(items).first < 0

\* variant: the default is matched against disabled choices too
DefaultMatchAny(item, cfg) == ~item.sep /\ item.value = cfg.default.value

DefaultMatch(item, cfg) == isSelectable(item) /\ item.value = cfg.default.value

defaultItemIndex(cfg) ==
  IF ~cfg.default.present THEN -1
  ELSE FindIndex([i \in 1 .. Len(cfg.choices) |->
                    DefaultMatch(cfg.choices[i], cfg)])

InitialActive(cfg) ==
  IF defaultItemIndex(cfg) = -1 THEN Bounds(cfg.choices).first
  ELSE defaultItemIndex(cfg)

\* String(item.name || item.value)
Label(item) == IF TruthyName(item) THEN item.name ELSE StringOf(item.value)

\* variant: the label is not lower-cased
SearchMatchCaseSensitive(item, searchTerm) ==
  IF item.sep \/ ~isSelectable(item) THEN FALSE
  ELSE StartsWith(Label(item), searchTerm)

SearchMatch(item, searchTerm) ==
  IF item.sep \/ ~isSelectable(item) THEN FALSE
  ELSE StartsWith(ToLowerCase(Label(item)), searchTerm)

matchIndex(items, searchTerm) ==
  FindIndex([i \in 1 .. Len(items) |-> SearchMatch(items[i], searchTerm)])

\* variant: the while condition never asks for another iteration
SkipTestNever(items, next) == FALSE

\* variant: the while condition lost its negation
SkipTestInverted(items, next) == isSelectable(At(items, next))

SkipTest(items, next) == ~isSelectable(At(items, next))

\* do { next = (next + offset + n) % n } while (!isSelectable(items[next]))
\* After n iterations the scan has visited every index and repeats, so a
\* scan that has not stopped by then never stops: diverged.
SkipLoop(items, from, offset) ==
  LET n == Len(items)
      RECURSIVE iter(_, _)
      iter(cur, steps) ==
        LET nxt == (cur + offset + n) % n
        IN IF ~SkipTest(items, nxt)
             THEN [next |-> nxt, steps |-> steps + 1, diverged |-> FALSE]
           ELSE IF steps + 1 >= n
             THEN [next |-> nxt, steps |-> steps + 1, diverged |-> TRUE]
           ELSE iter(nxt, steps + 1)
  IN iter(from, 0)

\* variant: the loop flag is not consulted
MoveAllowedNoLoop(cfg, b, act, isUp) ==
  \/ (isUp /\ act # b.first)
  \/ (~isUp /\ act # b.last)

\* variant: the two bounds are swapped
MoveAllowedSwapped(cfg, b, act, isUp) ==
  \/ cfg.loop
  \/ (isUp /\ act # b.last)
  \/ (~isUp /\ act # b.first)

\* loop || (up && active !== first) || (down && active !== last)
MoveAllowed(cfg, b, act, isUp) ==
  \/ cfg.loop
  \/ (isUp /\ act # b.first)
  \/ (~isUp /\ act # b.last)

\* variant: the jump does not test selectability
NumberTargetAny(items, position) == position \in IndexSet(items)

NumberTarget(items, position) ==
  position \in IndexSet(items) /\ isSelectable(At(items, position))

\* ------------------------------------------------------ timers and render
\* clearTimeout(handle): the timeout with that handle is no longer scheduled
ClearTimeoutNoop(scheduled, handle) == scheduled

ClearTimeout(scheduled, handle) == scheduled \ {handle}

\* the handle setTimeout returns: one that names no scheduled timeout
NewHandle(scheduled) ==
  CHOOSE h \in 1 .. (Cardinality(scheduled) + 1) :
    /\ h \notin scheduled
    /\ \A g \in 1 .. (h - 1) : g \in scheduled

\* rl.clearLine(0)
clearLineNoop(l) == l

clearLine(l) == <<>>

\* firstRender.current && items.length <= pageSize
ShowsHelpTipAlways(first, cfg) == Len(cfg.choices) <= cfg.pageSize

ShowsHelpTip(first, cfg) == first /\ Len(cfg.choices) <= cfg.pageSize

\* ----------------------------------------------------------------- state
VARIABLES
  config,      \* SelectConfig: choices, loop, default, pageSize
  error,       \* "none" or "ValidationError" (construction threw)
  bounds,      \* the bounds memo
  status,      \* 'pending' | 'done'
  active,      \* the active state cell
  line,        \* rl.line, the type-ahead buffer
  timeouts,    \* handles of the timeouts scheduled and not yet fired
  searchTimeoutRef, \* searchTimeoutRef.current, 0 for undefined
  firstRender, \* firstRender.current
  helpTip,     \* the header of the latest render carries the help tip
  hintRenders, \* renders that carried the help tip: 0, 1 or 2 for more
  hung,        \* a handler entered a loop it never leaves
  doneCalls,   \* invocations of done(): 0, 1 or 2 for more than one
  firstValue,  \* <<v>> for the value of the first done(v), else <<>>
  lastKey,     \* history: the last event handled
  prevActive,  \* history: active before the last event
  prevLineEmpty, \* history: rl.line was '' before the last event
  loopSteps    \* history: iterations of the skip loop in the last event

vars == <<config, error, bounds, status, active, line, timeouts,
          searchTimeoutRef, firstRender, helpTip, hintRenders, hung,
          doneCalls, firstValue, lastKey, prevActive, prevLineEmpty,
          loopSteps>>

\* pageSize = 7 unless the configuration gives one
DefaultPageSize == 7

PageSizes == {MaxLen - 1, DefaultPageSize}

\* configurations that leave pageSize at its default
Configs ==
  [choices : ItemLists, loop : BOOLEAN, default : DefaultSet,
   pageSize : {DefaultPageSize}]

\* configurations that set pageSize, some below the number of items
RenderConfigs ==
  [choices : ItemLists, loop : BOOLEAN, default : {NoDefault},
   pageSize : PageSizes]

Key(name, d) == [name |-> name, digit |-> d]

\* the timeout searchTimeoutRef.current names is scheduled
timer == searchTimeoutRef \in timeouts

InitWith(configs) ==
  /\ config \in configs
  /\ bounds = Bounds(config.choices)
  /\ error = IF ThrowsValidationError(config.choices)
               THEN "ValidationError" ELSE "none"
  /\ status = "pending"
  /\ active = IF ThrowsValidationError(config.choices)
                THEN -1 ELSE InitialActive(config)
  /\ line = <<>>
  /\ timeouts = {}
  /\ searchTimeoutRef = 0
  /\ helpTip = (~ThrowsValidationError(config.choices)
                  /\ ShowsHelpTip(TRUE, config))
  /\ firstRender = ~helpTip
  /\ hintRenders = IF helpTip THEN 1 ELSE 0
  /\ hung = FALSE
  /\ doneCalls = 0
  /\ firstValue = <<>>
  /\ lastKey = Key("none", 0)
  /\ prevActive = -1
  /\ prevLineEmpty = TRUE
  /\ loopSteps = 0

Init == InitWith(Configs)

InitRender == InitWith(RenderConfigs)

\* the prompt exists, its keypress handler is installed and the event loop
\* is free to run a callback
Running == error = "none" /\ ~hung

selectedChoice == At(config.choices, active)

\* the render that follows a handled key
Render ==
  /\ helpTip' = ShowsHelpTip(firstRender, config)
  /\ firstRender' = (firstRender /\ ~ShowsHelpTip(firstRender, config))
  /\ hintRenders' = IF ShowsHelpTip(firstRender, config)
                      THEN (IF hintRenders = 0 THEN 1 ELSE 2)
                      ELSE hintRenders

History(key) ==
  /\ lastKey' = key
  /\ prevActive' = active
  /\ prevLineEmpty' = (line = <<>>)

\* ---------------------------------------------------------------- actions
\* Enter: readline has consumed the line before the handler runs
KeyEnter ==
  /\ Running
  /\ timeouts' = ClearTimeout(timeouts, searchTimeoutRef)
  /\ status' = "done"
  /\ doneCalls' = IF doneCalls = 0 THEN 1 ELSE 2
  /\ firstValue' = IF doneCalls = 0 THEN <<selectedChoice.value>>
                   ELSE firstValue
  /\ line' = <<>>
  /\ loopSteps' = 0
  /\ History(Key("enter", 0))
  /\ Render
  /\ UNCHANGED <<config, error, bounds, active, searchTimeoutRef, hung>>

KeyUpDown(isUp) ==
  /\ Running
  /\ timeouts' = ClearTimeout(timeouts, searchTimeoutRef)
  /\ line' = clearLine(line)
  /\ History(Key(IF isUp THEN "up" ELSE "down", 0))
  /\ IF MoveAllowed(config, bounds, active, isUp)
       THEN LET r == SkipLoop(config.choices, active, IF isUp THEN -1 ELSE 1)
            IN /\ loopSteps' = r.steps
               /\ hung' = r.diverged
               /\ IF r.diverged
                    THEN UNCHANGED <<active, firstRender, helpTip,
                                     hintRenders>>
                    ELSE active' = r.next /\ Render
       ELSE /\ active' = active
            /\ loopSteps' = 0
            /\ hung' = FALSE
            /\ Render
  /\ UNCHANGED <<config, error, bounds, status, doneCalls,
               firstValue, searchTimeoutRef>>

KeyUp == KeyUpDown(TRUE)

KeyDown == KeyUpDown(FALSE)

KeyNumber ==
  \E d \in DigitKeys :
    /\ Running
    /\ timeouts' = ClearTimeout(timeouts, searchTimeoutRef)
    /\ line' = clearLine(line)
    /\ LET position == d - 1
       IN active' = IF NumberTarget(config.choices, position)
                      THEN position ELSE active
    /\ loopSteps' = 0
    /\ History(Key("number", d))
    /\ Render
    /\ UNCHANGED <<config, error, bounds, status, doneCalls,
               firstValue, searchTimeoutRef, hung>>

\* variant: backspace also returns the cursor to the first choice
KeyBackspaceResets ==
  /\ Running
  /\ timeouts' = ClearTimeout(timeouts, searchTimeoutRef)
  /\ line' = clearLine(line)
  /\ active' = bounds.first
  /\ loopSteps' = 0
  /\ History(Key("backspace", 0))
  /\ Render
  /\ UNCHANGED <<config, error, bounds, status, doneCalls,
               firstValue, searchTimeoutRef, hung>>

KeyBackspace ==
  /\ Running
  /\ timeouts' = ClearTimeout(timeouts, searchTimeoutRef)
  /\ line' = clearLine(line)
  /\ loopSteps' = 0
  /\ History(Key("backspace", 0))
  /\ Render
  /\ UNCHANGED <<config, error, bounds, status, active, doneCalls,
               firstValue, searchTimeoutRef, hung>>

\* the search branch, entered with rl.line as readline left it
Search(newLine, keyName) ==
  /\ Running
  /\ line' = newLine
  /\ LET m == matchIndex(config.choices, ToLowerCase(newLine))
     IN active' = IF m >= 0 THEN m ELSE active
  /\ LET cleared == ClearTimeout(timeouts, searchTimeoutRef)
         handle == NewHandle(cleared)
     IN /\ timeouts' = cleared \cup {handle}
        /\ searchTimeoutRef' = handle
  /\ loopSteps' = 0
  /\ History(Key(keyName, 0))
  /\ Render
  /\ UNCHANGED <<config, error, bounds, status, doneCalls,
               firstValue, hung>>

\* a printable key: readline appended the character to rl.line
KeyPrintable ==
  \E c \in Chars :
    /\ Len(line) < MaxBuf
    /\ Search(Append(line, c), "printable")

\* any other key (left, right, ...): rl.line is as it was
KeyOther == Search(line, "other")

\* variant: the callback also returns the cursor to the first choice
TimerFireResets ==
  \E h \in timeouts :
    /\ ~hung
    /\ timeouts' = timeouts \ {h}
    /\ line' = clearLine(line)
    /\ active' = bounds.first
    /\ loopSteps' = 0
    /\ History(Key("timer", 0))
    /\ UNCHANGED <<config, error, bounds, status, doneCalls,
                 firstValue, searchTimeoutRef, firstRender, helpTip,
                 hintRenders, hung>>

\* setTimeout(() => rl.clearLine(0), 700): a scheduled timeout comes due;
\* the callback touches no state cell, so no render follows
TimerFire ==
  \E h \in timeouts :
    /\ ~hung
    /\ timeouts' = timeouts \ {h}
    /\ line' = clearLine(line)
    /\ loopSteps' = 0
    /\ History(Key("timer", 0))
    /\ UNCHANGED <<config, error, bounds, status, active, doneCalls,
                 firstValue, searchTimeoutRef, firstRender, helpTip,
                 hintRenders, hung>>

Next ==
  \/ KeyEnter
  \/ KeyUp
  \/ KeyDown
  \/ KeyNumber
  \/ KeyBackspace
  \/ KeyPrintable
  \/ KeyOther
  \/ TimerFire

Spec == Init /\ [][Next]_vars

\* the same prompt over the configurations that vary pageSize
RenderSpec == InitRender /\ [][Next]_vars

\* a user who leaves the keyboard alone while a timeout is scheduled; the
\* event loop runs a timeout that stays scheduled
Quiet(keyEvent) == timeouts = {} /\ keyEvent

NextQuiet ==
  \/ Quiet(KeyEnter)
  \/ Quiet(KeyUp)
  \/ Quiet(KeyDown)
  \/ Quiet(KeyNumber)
  \/ Quiet(KeyBackspace)
  \/ Quiet(KeyPrintable)
  \/ Quiet(KeyOther)
  \/ TimerFire

QuietSpec == Init /\ [][NextQuiet]_vars /\ WF_vars(TimerFire)

\* ---------------------------------------------------------- specification
\* reference notions used by the properties below
SelectableIndices == { i \in IndexSet(config.choices) :
                         LET it == At(config.choices, i)
                         IN ~it.sep /\ ~TruthyDisabled(it.disabled) }

MinOf(S) == CHOOSE i \in S : \A j \in S : i <= j

MaxOf(S) == CHOOSE i \in S : \A j \in S : i >= j

HasNonSelectable == \E i \in IndexSet(config.choices) : i \notin SelectableIndices

\* C1: whenever the prompt was constructed, activeIndex is an index of the
\* item list and the item there is a selectable choice, after any sequence
\* of key and timer events.
C1_ActiveSelectable ==
  Running =>
    /\ active \in IndexSet(config.choices)
    /\ ~At(config.choices, active).sep
    /\ ~TruthyDisabled(At(config.choices, active).disabled)

C1_Witness ==
  /\ Running
  /\ HasNonSelectable
  /\ lastKey.name = "down"
  /\ active < prevActive
  /\ line = <<>>

\* C2: once status is Done, every later event leaves status and
\* activeIndex unchanged.
C2_DoneTerminal ==
  [][status = "done" => (status' = "done" /\ active' = active)]_vars

\* C3: the done callback is invoked exactly once, on the first Enter; no
\* later key event causes a further emission.
C3_EmitOnce ==
  /\ status = "pending" => doneCalls = 0
  /\ status = "done" => doneCalls = 1

\* C4: construction fails with the validation error if and only if the
\* item list has no selectable item.
C4_FailsIffNoSelectable ==
  (error = "ValidationError") <=> (SelectableIndices = {})

C4_Witness ==
  /\ error = "ValidationError"
  /\ Len(config.choices) >= 2
  /\ \E i \in IndexSet(config.choices) : At(config.choices, i).sep
  /\ \E i \in IndexSet(config.choices) : ~At(config.choices, i).sep

\* C5: with a selectable item, Bounds.first is the smallest and Bounds.last
\* the largest selectable index, so first <= last and both are selectable.
C5_Bounds ==
  Running =>
    /\ bounds.first = MinOf(SelectableIndices)
    /\ bounds.last = MaxOf(SelectableIndices)
    /\ bounds.first <= bounds.last
    /\ bounds.first \in SelectableIndices
    /\ bounds.last \in SelectableIndices

C5_Witness ==
  /\ Running
  /\ 0 < bounds.first
  /\ bounds.first < bounds.last

\* C6: the initial activeIndex is the first selectable choice whose value
\* equals the default when the default is set and such a choice exists, and
\* Bounds.first in every other case.
DefaultIndices == { i \in SelectableIndices :
                      At(config.choices, i).value = config.default.value }

C6_InitialActive ==
  (Running /\ lastKey.name = "none") =>
    active = IF config.default.present /\ DefaultIndices # {}
               THEN MinOf(DefaultIndices)
               ELSE bounds.first

C6_Witness ==
  /\ Running
  /\ lastKey.name = "none"
  /\ config.default.present
  /\ active > bounds.first
  /\ \E i \in IndexSet(config.choices) :
       /\ i < active
       /\ At(config.choices, i).value = config.default.value

\* C7: with loop=true and status Pending, Down moves to the nearest
\* selectable index after the current one in cyclic order and Up to the
\* nearest one before it; Down from Bounds.last wraps to Bounds.first and Up
\* from Bounds.first wraps to Bounds.last.
CyclicDist(from, to, dir) ==
  LET n == Len(config.choices)
  IN ((to - from) * dir - 1 + 2 * n) % n

CyclicNearest(from, dir) ==
  CHOOSE j \in SelectableIndices :
    \A k \in SelectableIndices :
      CyclicDist(from, j, dir) <= CyclicDist(from, k, dir)

C7_LoopNavigation ==
  (Running /\ config.loop /\ status = "pending") =>
    /\ lastKey.name = "down" =>
         /\ active = CyclicNearest(prevActive, 1)
         /\ prevActive = bounds.last => active = bounds.first
    /\ lastKey.name = "up" =>
         /\ active = CyclicNearest(prevActive, -1)
         /\ prevActive = bounds.first => active = bounds.last

C7_Witness ==
  /\ Running
  /\ config.loop
  /\ status = "pending"
  /\ lastKey.name = "down"
  /\ prevActive = bounds.last
  /\ active = bounds.first
  /\ bounds.first < bounds.last
  /\ bounds.last < Len(config.choices) - 1

\* C8: with loop=false, Up at Bounds.first and Down at Bounds.last leave
\* activeIndex unchanged; any other Up moves to the nearest selectable index
\* below and any other Down to the nearest selectable index above.
C8_NoLoopNavigation ==
  (Running /\ ~config.loop) =>
    /\ lastKey.name = "up" =>
         IF prevActive = bounds.first
           THEN active = prevActive
           ELSE /\ active < prevActive
                /\ active = MaxOf({ j \in SelectableIndices : j < prevActive })
    /\ lastKey.name = "down" =>
         IF prevActive = bounds.last
           THEN active = prevActive
           ELSE /\ active > prevActive
                /\ active = MinOf({ j \in SelectableIndices : j > prevActive })

C8_Witness ==
  /\ Running
  /\ ~config.loop
  /\ lastKey.name = "up"
  /\ prevActive = bounds.first
  /\ active = prevActive
  /\ bounds.first < bounds.last

\* C9: a digit key d in Pending sets activeIndex to d-1 exactly when index
\* d-1 exists and holds a selectable item; otherwise activeIndex is
\* unchanged.
C9_NumberJump ==
  (Running /\ status = "pending" /\ lastKey.name = "number") =>
    IF lastKey.digit - 1 \in SelectableIndices
      THEN active = lastKey.digit - 1
      ELSE active = prevActive

C9_Witness ==
  /\ Running
  /\ status = "pending"
  /\ lastKey.name = "number"
  /\ active = lastKey.digit - 1
  /\ active # prevActive

\* C10: a printable key in Pending sets activeIndex to the smallest index of
\* a selectable item whose label (name, else the stringified value) starts,
\* ignoring case, with the search buffer, whatever activeIndex was before;
\* with no such item activeIndex is unchanged.
DisplayLabel(item) ==
  IF item.hasName /\ item.name # <<>> THEN item.name ELSE StringOf(item.value)

PrefixMatches ==
  { i \in SelectableIndices :
      LET lab == ToLowerCase(DisplayLabel(At(config.choices, i)))
          buf == ToLowerCase(line)
      IN /\ Len(buf) <= Len(lab)
         /\ \A k \in 1 .. Len(buf) : lab[k] = buf[k] }

C10_SearchFirstMatch ==
  (Running /\ status = "pending" /\ lastKey.name = "printable") =>
    IF PrefixMatches # {}
      THEN active = MinOf(PrefixMatches)
      ELSE active = prevActive

C10_Witness ==
  /\ Running
  /\ status = "pending"
  /\ lastKey.name = "printable"
  /\ Len(line) = 2
  /\ active > 0
  /\ prevActive = 0
  /\ PrefixMatches # {}

\* C11: after a search key, if no further key arrives, the expiry timer
\* fires and the buffer becomes empty, so the next printable key is matched
\* against that key alone.
SingleCharMatches(c) ==
  { i \in SelectableIndices :
      LET lab == ToLowerCase(DisplayLabel(At(config.choices, i)))
      IN Len(lab) >= 1 /\ lab[1] = ToLowerChar(c) }

C11_BufferExpires ==
  /\ (timeouts # {}) ~> (lastKey.name = "timer" /\ line = <<>>)
  /\ [][(lastKey.name = "timer" /\ lastKey'.name = "printable") =>
          /\ Len(line') = 1
          /\ SingleCharMatches(line'[1]) # {} =>
               active' = MinOf(SingleCharMatches(line'[1]))]_vars

C11_Witness ==
  /\ lastKey.name = "timer"
  /\ ~prevLineEmpty
  /\ line = <<>>
  /\ timeouts = {}

\* C12: at most one expiry timer is pending in every reachable state: every
\* key event cancels the pending one, only a search key schedules one.
SearchKeys == {"printable", "other"}

C12_OneTimer ==
  /\ Cardinality(timeouts) <= 1
  /\ lastKey.name \in {"enter", "up", "down", "number", "backspace"} =>
       timeouts = {}
  /\ timeouts # {} =>
       /\ lastKey.name \in SearchKeys
       /\ timeouts = {searchTimeoutRef}

C12_Witness ==
  /\ lastKey.name = "printable"
  /\ ~prevLineEmpty
  /\ Len(line) = 2
  /\ Cardinality(timeouts) = 1

\* C13: in every reachable state whose status is Done no expiry timer is
\* pending.
C13_NoTimerWhenDone == status = "done" => timeouts = {}

\* C14: after every Up, Down or Digit key the search buffer is empty, also
\* when the key does not move activeIndex.
C14_NavigationClearsBuffer ==
  lastKey.name \in {"up", "down", "number"} => line = <<>>

C14_Witness ==
  /\ lastKey.name = "number"
  /\ lastKey.digit > Len(config.choices)
  /\ ~prevLineEmpty
  /\ line = <<>>
  /\ active = prevActive

\* C15: Backspace empties the search buffer; activeIndex and status are
\* unchanged and nothing is emitted.
C15_BackspaceFrame ==
  [][lastKey'.name = "backspace" =>
       /\ line' = <<>>
       /\ active' = active
       /\ status' = status
       /\ doneCalls' = doneCalls
       /\ firstValue' = firstValue]_vars

C15_Witness ==
  /\ lastKey.name = "backspace"
  /\ ~prevLineEmpty
  /\ line = <<>>
  /\ status = "pending"
  /\ active > bounds.first

\* C16: the firing of the expiry timer only empties the search buffer;
\* activeIndex stays where the search put it, status is unchanged and
\* nothing is emitted.
C16_TimerFrame ==
  [][lastKey'.name = "timer" =>
       /\ line' = <<>>
       /\ active' = active
       /\ status' = status
       /\ doneCalls' = doneCalls
       /\ firstValue' = firstValue]_vars

C16_Witness ==
  /\ lastKey.name = "timer"
  /\ ~prevLineEmpty
  /\ line = <<>>
  /\ status = "pending"
  /\ active > bounds.first
  /\ active = prevActive

\* C17: the help tip is in the header of the first render only, and only
\* when the number of items is at most pageSize; no later render and no
\* render of a longer list carries it.
C17_HelpTipOnce ==
  /\ hintRenders <= 1
  /\ helpTip => (lastKey.name = "none"
                   /\ Len(config.choices) <= config.pageSize)
  /\ Len(config.choices) > config.pageSize =>
       (hintRenders = 0 /\ ~helpTip)

C17_Witness ==
  /\ Running
  /\ lastKey.name = "down"
  /\ hintRenders = 1
  /\ ~helpTip
  /\ ~firstRender

\* C18: the expiry timer fires only if no key event was handled since the
\* keystroke that scheduled it.
C18_NoStaleTimer ==
  [][lastKey'.name = "timer" =>
       /\ lastKey.name \in SearchKeys
       /\ timeouts = {searchTimeoutRef}]_vars

C18_Witness ==
  /\ lastKey.name = "timer"
  /\ ~prevLineEmpty
  /\ searchTimeoutRef # 0
  /\ searchTimeoutRef \notin timeouts

\* C19: when the search branch runs with an empty search term, activeIndex
\* becomes Bounds.first whatever it was, and an expiry timer is scheduled.
C19_EmptySearch ==
  (lastKey.name = "other" /\ line = <<>>) =>
    /\ active = bounds.first
    /\ timeouts # {}

C19_Witness ==
  /\ lastKey.name = "other"
  /\ line = <<>>
  /\ prevActive > bounds.first
  /\ active = bounds.first
  /\ timeouts # {}

\* C20: the skip loop of an Up or Down key ends within (list length)
\* iterations; no key handler runs forever.
C20_SkipLoopTerminates ==
  /\ ~hung
  /\ loopSteps <= Len(config.choices)
  /\ (lastKey.name \in {"up", "down"} /\ active # prevActive) =>
       loopSteps >= 1

C20_Witness ==
  /\ lastKey.name = "down"
  /\ Len(config.choices) >= 3
  /\ loopSteps = Len(config.choices)
  /\ active = prevActive
  /\ ~hung

TypeOK ==
  /\ config \in Configs \cup RenderConfigs
  /\ status \in {"pending", "done"}
  /\ error \in {"none", "ValidationError"}
  /\ line \in Lines
  /\ searchTimeoutRef \in 0 .. MaxBuf + 2
  /\ hung \in BOOLEAN
  /\ prevLineEmpty \in BOOLEAN
  /\ doneCalls \in 0 .. 2
  /\ Len(firstValue) <= 1
====
